---- MODULE Spec2Model ----
(***************************************************************************)
(* Model of src/structs.cpp: the ROM container (address translation, RATS  *)
(* tag lookup, open/close/destruction of the owned buffer), the patchfile  *)
(* staging buffer and the sprite-table predicate.                          *)
(***************************************************************************)
EXTENDS Integers, Naturals, Sequences, FiniteSets, TLC

VARIABLES
    mapper,        \* ROM::mapper
    header_size,   \* ROM::header_size
    size,          \* ROM::size
    m_data,        \* ROM::m_data: 0 is nullptr, n > 0 the n-th buffer allocated
    free_count,    \* free_count[n]: how often the n-th buffer was delete[]d
    rom_state,     \* "constructed", "destroyed" or "crashed"
    file_pages,    \* size of the file of the last open, whole 32 KiB pages ...
    file_rem,      \* ... and the bytes beyond them
    open_result,   \* what the last open returned: "none", "true" or "false"
    close_buf,     \* the m_data the last close() since an open was called with
    pc_in,         \* the pcaddress handed to pc_to_snes
    snes_val,      \* the snesaddress returned by pc_to_snes / handed to snes_to_pc
    pc_out,        \* the pcaddress returned by snes_to_pc
    step,          \* which translation calls have been made
    rats_hdr,      \* the 8 bytes m_data[p - 8 .. p - 1] in front of a payload offset p
    rats_result,   \* what get_rats_size(p) returned
    rats_step,     \* "idle" or "done"
    m_fs_path,     \* patchfile::m_fs_path, the path as given
    m_path,        \* patchfile::m_path, the path in lower case
    m_from_meimei, \* patchfile::m_from_meimei
    m_binary,      \* patchfile::m_binary
    s_pixi_keep,   \* patchfile::s_pixi_keep
    s_meimei_keep, \* patchfile::s_meimei_keep
    m_data_stream, \* patchfile::m_data_stream, the bytes accumulated
    patch_data,    \* patchfile::m_data
    m_vfile,       \* patchfile::m_vfile: where buffer points, and length
    disk,          \* the file at m_fs_path
    text_crlf,     \* whether text mode of the C library writes '\n' as "\r\n"
    patch_state,   \* "alive" or "destroyed"
    dtor_io,       \* the file operation of ~patchfile: "none", "ok" or "failed"
    did_fprintf,   \* fprintf was called since construction or clear()
    did_fwrite,    \* fwrite was called since construction or clear()
    finalized,     \* close() was called and nothing appended or cleared since
    sprite_list,   \* the span handed to is_empty_table
    table_result   \* what is_empty_table returned: "none", "true" or "false"

romVars == <<mapper, header_size, size, m_data, free_count, rom_state,
             file_pages, file_rem, open_result, close_buf>>

addrVars == <<pc_in, snes_val, pc_out, step>>

ratsVars == <<rats_hdr, rats_result, rats_step>>

patchVars == <<m_fs_path, m_path, m_from_meimei, m_binary, s_pixi_keep, s_meimei_keep,
               m_data_stream, patch_data, m_vfile, disk, text_crlf, patch_state,
               dtor_io, did_fprintf, did_fwrite, finalized>>

spriteVars == <<sprite_list, table_result>>

vars == <<romVars, addrVars, ratsVars, patchVars, spriteVars>>

(***************************************************************************)
(* C++ int arithmetic: 32-bit two's complement.  An int is its own value;  *)
(* the bitwise operators work on the two's complement digits, which floor  *)
(* division by 2 peels off (a negative value ends in an endless run of 1s, *)
(* that is -1).                                                            *)
(***************************************************************************)

RECURSIVE And(_, _)
\* a & b
And(a, b) ==
    IF a = 0 \/ b = 0 THEN 0
    ELSE IF a = -1 THEN b
    ELSE IF b = -1 THEN a
    ELSE (a % 2) * (b % 2) + 2 * And(a \div 2, b \div 2)

RECURSIVE Or(_, _)
\* a | b
Or(a, b) ==
    IF a = 0 THEN b
    ELSE IF b = 0 THEN a
    ELSE IF a = -1 \/ b = -1 THEN -1
    ELSE (IF a % 2 = 1 \/ b % 2 = 1 THEN 1 ELSE 0) + 2 * Or(a \div 2, b \div 2)

RECURSIVE Xor(_, _)
\* a ^ b
Xor(a, b) ==
    IF a = 0 THEN b
    ELSE IF b = 0 THEN a
    ELSE IF a = -1 /\ b = -1 THEN 0
    ELSE (IF (a % 2) # (b % 2) THEN 1 ELSE 0) + 2 * Xor(a \div 2, b \div 2)

\* a << n on a 32-bit int, 1 <= n <= 30: the bits shifted past bit 31 are
\* lost and bit 31 - n becomes the sign
Shl(a, n) ==
    (a % (2^(31 - n))) * (2^n) + ((a \div (2^(31 - n))) % 2) * ((-(2^30)) * 2)

\* a >> n
Shr(a, n) == a \div (2^n)

(***************************************************************************)
(* ROM address translation.                                                *)
(***************************************************************************)

MapperType == {"lorom", "sa1rom", "fullsa1rom"}

\* ROM::sa1banks (declared in structs.h): the default SA-1 bank layout,
\* sa1banks[i] is held at position i + 1.
sa1banks == <<0, 1048576, -1, -1, 2097152, 3145728, -1, -1>>

\* the banks i of the for loop of pc_to_snes that match the address
sa1match(address) == {i \in 0..7 : sa1banks[i + 1] = And(address, \H700000)}

\* the first matching i, as the loop finds it
sa1first(address) ==
    CHOOSE i \in sa1match(address) : \A j \in sa1match(address) : i <= j

\* pc_to_snes under LoROM without the | 0x8000
pc_to_snes_lorom_no8000(address) ==
    Or(And(Shl(address, 1), \H7F0000), And(address, \H7FFF))

pc_to_snes_lorom(address) ==
    Or(Or(And(Shl(address, 1), \H7F0000), And(address, \H7FFF)), \H8000)

\* pc_to_snes under SA1ROM with the bank index shifted by 20, not 21
pc_to_snes_sa1rom_shift20(address) ==
    IF sa1match(address) # {}
    THEN Or(Or(Or(\H008000, Shl(sa1first(address), 20)),
               Shl(And(address, \H0F8000), 1)),
            And(address, \H7FFF))
    ELSE -1

pc_to_snes_sa1rom(address) ==
    IF sa1match(address) # {}
    THEN Or(Or(Or(\H008000, Shl(sa1first(address), 21)),
               Shl(And(address, \H0F8000), 1)),
            And(address, \H7FFF))
    ELSE -1

\* pc_to_snes under FullSA1ROM with the third formula missing 0x800000
pc_to_snes_fullsa1rom_no800000(address) ==
    IF And(address, \H400000) = \H400000
    THEN Or(address, \HC00000)
    ELSE IF And(address, \H600000) = 0
    THEN Or(Or(And(Shl(address, 1), \H3F0000), \H8000), And(address, \H7FFF))
    ELSE IF And(address, \H600000) = \H200000
    THEN Or(Or(And(Shl(address, 1), \H3F0000), \H8000), And(address, \H7FFF))
    ELSE -1

pc_to_snes_fullsa1rom(address) ==
    IF And(address, \H400000) = \H400000
    THEN Or(address, \HC00000)
    ELSE IF And(address, \H600000) = 0
    THEN Or(Or(And(Shl(address, 1), \H3F0000), \H8000), And(address, \H7FFF))
    ELSE IF And(address, \H600000) = \H200000
    THEN Or(Or(Or(\H800000, And(Shl(address, 1), \H3F0000)), \H8000),
            And(address, \H7FFF))
    ELSE -1

pc_to_snes(m, hs, pc) ==
    LET address == pc - hs IN
    IF m = "lorom" THEN pc_to_snes_lorom(address)
    ELSE IF m = "sa1rom" THEN pc_to_snes_sa1rom(address)
    ELSE IF m = "fullsa1rom" THEN pc_to_snes_fullsa1rom(address)
    ELSE -1

snes_to_pc(m, hs, address) ==
    IF m = "lorom" THEN
        IF \/ And(address, \HFE0000) = \H7E0000
           \/ And(address, \H408000) = 0
           \/ And(address, \H708000) = \H700000
        THEN -1
        ELSE Or(Shr(And(address, \H7F0000), 1), And(address, \H7FFF)) + hs
    ELSE IF m = "sa1rom" THEN
        LET a2 ==
              IF And(address, \H408000) = \H008000
              THEN Or(Or(sa1banks[Shr(And(address, \HE00000), 21) + 1],
                         Shr(And(address, \H1F0000), 1)),
                      And(address, \H007FFF))
              ELSE IF And(address, \HC00000) = \HC00000
              THEN Or(sa1banks[Or(Shr(And(address, \H100000), 20),
                                  Shr(And(address, \H200000), 19)) + 1],
                      And(address, \H0FFFFF))
              ELSE -1
        IN a2 + hs
    ELSE IF m = "fullsa1rom" THEN
        IF And(address, \HC00000) = \HC00000
        THEN Or(And(address, \H3FFFFF), \H400000) + hs
        ELSE IF And(address, \HC00000) = 0 \/ And(address, \HC00000) = \H800000
        THEN IF And(address, \H008000) = 0
             THEN -1
             ELSE Or(Or(Shr(And(address, \H800000), 2),
                        Shr(And(address, \H3F0000), 1)),
                     And(address, \H7FFF)) + hs
        ELSE -1
    ELSE -1

(***************************************************************************)
(* RATS tag lookup.  get_rats_size(p) reads the 8 bytes in front of p:     *)
(* rats_hdr[k] is m_data[p - 9 + k].                                       *)
(***************************************************************************)

\* "STAR"
rats_tag == <<83, 84, 65, 82>>

nullopt == [has_value |-> FALSE, value |-> 0]

Some(v) == [has_value |-> TRUE, value |-> v]

\* conversion of an int to uint16_t
ToU16(x) == x % 65536

get_rats_size(hdr) ==
    IF \E k \in 1..4 : hdr[k] # rats_tag[k]
    THEN nullopt
    ELSE LET tag_size == ToU16(Or(hdr[5], Shl(hdr[6], 8)))
             chksum == ToU16(Or(hdr[7], Shl(hdr[8], 8)))
         IN IF Xor(tag_size, \HFFFF) # chksum
            THEN nullopt
            ELSE Some(ToU16(tag_size + 1))

\* bytes tried in each field of the header
TagBytes(k) == {rats_tag[k], rats_tag[k] + 1, 0}

MaxFieldByte == 1

FieldBytes == (0..MaxFieldByte) \cup {4, 251, 254, 255}

RatsHeaders ==
    {<<t1, t2, t3, t4, s1, s2, c1, c2>> :
        t1 \in TagBytes(1), t2 \in TagBytes(2), t3 \in TagBytes(3), t4 \in TagBytes(4),
        s1 \in {0, 4, 255}, s2 \in {0, 255}, c1 \in {0, 251, 255}, c2 \in {0, 255}}
    \cup
    {<<83, 84, 65, 82, s1, s2, c1, c2>> :
        s1 \in FieldBytes, s2 \in FieldBytes, c1 \in FieldBytes, c2 \in FieldBytes}

(***************************************************************************)
(* The owned buffer: open, close and destruction of one ROM container.     *)
(* A file is its size, file_pages * 0x8000 + file_rem bytes, and the two   *)
(* mapper bytes at header_size + 0x7fd5 and header_size + 0x7fd7.          *)
(***************************************************************************)
MaxOpens == 3

MaxFilePages == 2

\* 65536 pages are 2^31 bytes, one more than an int holds
FilePages == (0..MaxFilePages) \cup {32, 512, 65535, 65536}

FileRems == {0, 1, 512, \H7FFF}

MapperBytes == {0, \H0D, \H23}

\* static_cast<int>(file_size(file)) of a file of pages * 0x8000 + rem bytes
FileSizeAsInt(pages, rem) ==
    (((pages + 65536) % 131072) - 65536) * \H8000 + rem

\* header_size = size & 0x7FFF
open_header_size(total) == And(total, \H7FFF)

\* size -= header_size left out
open_size_unreduced(total) == total

\* size -= header_size
open_size(total) == total - open_header_size(total)

\* the mapper open() detects from the two bytes
open_mapper(b1, b2) ==
    IF b1 = \H23
    THEN IF b2 = \H0D THEN "fullsa1rom" ELSE "sa1rom"
    ELSE "lorom"

\* delete[] ptr
Delete(fc, ptr) == IF ptr = 0 THEN fc ELSE [fc EXCEPT ![ptr] = fc[ptr] + 1]

\* fwrite(m_data, 1, size + header_size, romfile) reads outside a buffer:
\* from nullptr, or a count that is negative as an int
CloseWriteUndefined ==
    \/ m_data = 0 /\ size + header_size # 0
    \/ size + header_size < 0

(***************************************************************************)
(* The patchfile staging buffer.  Content is a sequence of bytes; the file *)
(* at m_fs_path is absent or holds a sequence of bytes.                    *)
(***************************************************************************)
MaxContent == 3

\* '\n', 'A'
PatchBytes == {10, 65}

\* what one fprintf formats (vsnprintf sizes the buffer to the text)
FormattedTexts == {<<65>>, <<10>>, <<65, 10>>}

\* what one fwrite is handed
RawChunks == {<<65>>, <<10>>}

PatchPaths == {"", "Out.bin"}

\* std::tolower over the path, m_path of the constructor
ToLowerPath(path) == IF path = "Out.bin" THEN "out.bin" ELSE path

NoFile == [exists |-> FALSE, bytes |-> <<>>]

File(bytes) == [exists |-> TRUE, bytes |-> bytes]

\* a memoryfile as make_unique<memoryfile>() leaves it
EmptyVfile == [buffer |-> "nullptr", length |-> 0]

\* the destructor reading the flag of the other origin
keep_flag_swapped(from_meimei, pixi_keep, meimei_keep) ==
    IF from_meimei THEN pixi_keep ELSE meimei_keep

\* m_from_meimei ? s_meimei_keep : s_pixi_keep
keep_flag(from_meimei, pixi_keep, meimei_keep) ==
    IF from_meimei THEN meimei_keep ELSE pixi_keep

\* the bytes m_vfile->buffer, m_vfile->length denote
VfileBytes(vfile, data) ==
    IF vfile.buffer = "nullptr" THEN <<>> ELSE SubSeq(data, 1, vfile.length)

RECURSIVE CrLf(_)
\* text-mode output of a C library that writes '\n' as "\r\n"
CrLf(bytes) ==
    IF bytes = <<>> THEN <<>>
    ELSE (IF Head(bytes) = 10 THEN <<13, 10>> ELSE <<Head(bytes)>>) \o CrLf(Tail(bytes))

\* what ::fwrite leaves in a file opened "wb" (binary) or "w"
Written(bytes, binary, crlf) == IF binary \/ ~crlf THEN bytes ELSE CrLf(bytes)

(***************************************************************************)
(* Sprite tables.  A sprite is its table.init and table.main pointers.     *)
(***************************************************************************)
MaxSprites == 3

\* DEFAULT_PTR: (RTL_BANK << 16) | (RTL_HIGH << 8) | RTL_LOW
DEFAULT_PTR == 98337

PointerValues == {DEFAULT_PTR, 0, \H108000}

Sprites == [init : PointerValues, main : PointerValues]

\* pointer::is_empty(): the pointer is the default sentinel
is_empty(ptr) == ptr = DEFAULT_PTR

has_empty_table(sprite) == is_empty(sprite.init) /\ is_empty(sprite.main)

RECURSIVE is_empty_table(_)
\* the loop over the span, sprite by sprite
is_empty_table(sprites) ==
    IF sprites = <<>> THEN TRUE
    ELSE IF has_empty_table(Head(sprites)) THEN FALSE
    ELSE is_empty_table(Tail(sprites))

SpriteSpans == UNION {[1..n -> Sprites] : n \in 0..MaxSprites}

(***************************************************************************)
(* Initial conditions of the parts.                                        *)
(***************************************************************************)

\* the header sizes of the claims: no copier header, or one of 512 bytes
HeaderSizes == {0, 512}

\* no translation call made yet
AddrIdle ==
    /\ pc_in = 0
    /\ snes_val = 0
    /\ pc_out = 0
    /\ step = "idle"

\* a ROM that open() has loaded: a 16 MiB image, with or without header
RomLoaded ==
    /\ mapper \in MapperType
    /\ header_size \in HeaderSizes
    /\ size = 512 * \H8000
    /\ m_data = 1
    /\ free_count = <<0>>
    /\ rom_state = "constructed"
    /\ file_pages = 512
    /\ file_rem = header_size
    /\ open_result = "true"
    /\ close_buf = 0

\* a newly constructed ROM: no buffer (defaults of structs.h)
RomInit ==
    /\ mapper = "lorom"
    /\ header_size = 0
    /\ size = 0
    /\ m_data = 0
    /\ free_count = <<>>
    /\ rom_state = "constructed"
    /\ file_pages = 0
    /\ file_rem = 0
    /\ open_result = "none"
    /\ close_buf = 0

RatsIdle ==
    /\ rats_hdr = <<0, 0, 0, 0, 0, 0, 0, 0>>
    /\ rats_result = nullopt
    /\ rats_step = "idle"

\* no patchfile in use: the static keep flags as initialised
PatchIdle ==
    /\ m_fs_path = ""
    /\ m_path = ""
    /\ m_from_meimei = FALSE
    /\ m_binary = FALSE
    /\ s_pixi_keep = FALSE
    /\ s_meimei_keep = FALSE
    /\ m_data_stream = <<>>
    /\ patch_data = <<>>
    /\ m_vfile = EmptyVfile
    /\ disk = NoFile
    /\ text_crlf = FALSE
    /\ patch_state = "alive"
    /\ dtor_io = "none"
    /\ did_fprintf = FALSE
    /\ did_fwrite = FALSE
    /\ finalized = FALSE

\* is_empty_table not called
SpriteIdle ==
    /\ sprite_list = <<>>
    /\ table_result = "none"

(***************************************************************************)
(* Operations on the owned buffer of one ROM container.                    *)
(* A file is its size, file_pages * 0x8000 + file_rem bytes, and the two   *)
(* mapper bytes at header_size + 0x7fd5 and header_size + 0x7fd7.          *)
(***************************************************************************)
\* open(): the file cannot be opened
OpenNoFile ==
    /\ rom_state = "constructed"
    /\ m_data' = 0
    /\ open_result' = "false"
    /\ close_buf' = 0
    /\ UNCHANGED <<mapper, header_size, size, free_count, rom_state,
                   file_pages, file_rem, addrVars, ratsVars,
                   patchVars, spriteVars>>

\* open(): the file opens but read_all returns nullptr
OpenReadFails ==
    \E rem \in FileRems, pages \in FilePages :
        /\ rom_state = "constructed"
        /\ header_size' = open_header_size(FileSizeAsInt(pages, rem))
        /\ size' = open_size(FileSizeAsInt(pages, rem))
        /\ m_data' = 0
        /\ open_result' = "false"
        /\ close_buf' = 0
        /\ file_pages' = pages
        /\ file_rem' = rem
        /\ UNCHANGED <<mapper, free_count, rom_state, addrVars, ratsVars,
                   patchVars, spriteVars>>

\* open(): the file is read into a new buffer and the mapper detected
OpenOk ==
    \E rem \in FileRems, pages \in FilePages, b1 \in MapperBytes, b2 \in MapperBytes :
        /\ rom_state = "constructed"
        /\ Len(free_count) < MaxOpens
        /\ header_size' = open_header_size(FileSizeAsInt(pages, rem))
        /\ size' = open_size(FileSizeAsInt(pages, rem))
        /\ free_count' = Append(free_count, 0)
        /\ m_data' = Len(free_count) + 1
        /\ mapper' = open_mapper(b1, b2)
        /\ open_result' = "true"
        /\ close_buf' = 0
        /\ file_pages' = pages
        /\ file_rem' = rem
        /\ UNCHANGED <<rom_state, addrVars, ratsVars,
                   patchVars, spriteVars>>

\* close(): fopen(name, "wb") fails and close() returns at once
CloseNoFile ==
    /\ rom_state = "constructed"
    /\ close_buf' = m_data
    /\ UNCHANGED <<mapper, header_size, size, m_data, free_count, rom_state,
                   file_pages, file_rem, open_result, addrVars, ratsVars,
                   patchVars, spriteVars>>

\* close(): the file is written, the buffer deleted and m_data nulled
CloseOk ==
    /\ rom_state = "constructed"
    /\ free_count' = Delete(free_count, m_data)
    /\ m_data' = 0
    /\ close_buf' = m_data
    /\ UNCHANGED <<mapper, header_size, size, rom_state, file_pages, file_rem,
                   open_result, addrVars, ratsVars,
                   patchVars, spriteVars>>

\* close(): the undefined fwrite ends the process
CloseCrash ==
    /\ rom_state = "constructed"
    /\ CloseWriteUndefined
    /\ rom_state' = "crashed"
    /\ UNCHANGED <<mapper, header_size, size, m_data, free_count, file_pages,
                   file_rem, open_result, close_buf, addrVars, ratsVars,
                   patchVars, spriteVars>>

\* ~ROM()
Destroy ==
    /\ rom_state = "constructed"
    /\ free_count' = Delete(free_count, m_data)
    /\ rom_state' = "destroyed"
    /\ UNCHANGED <<mapper, header_size, size, m_data, file_pages, file_rem,
                   open_result, close_buf, addrVars, ratsVars,
                   patchVars, spriteVars>>

RomNext ==
    \/ OpenNoFile
    \/ OpenReadFails
    \/ OpenOk
    \/ CloseNoFile
    \/ CloseOk
    \/ CloseCrash
    \/ Destroy

(***************************************************************************)
(* Translation calls on a loaded ROM.  PC offsets are sampled page by page *)
(* (32 KiB pages, MaxPage covers a 16 MiB image) with a few offsets in     *)
(* each page; SNES addresses bank by bank.  A behaviour is one call of     *)
(* pc_to_snes, optionally followed by snes_to_pc of its result, or one     *)
(* call of snes_to_pc.                                                     *)
(***************************************************************************)

MaxPage == 511

MaxBank == 255

LowOffsets == {0, \H1234, \H7FFF}

BankOffsets == {0, \H7FFF, \H8000, \HFFFF}

\* offsets below a 512-byte header are in front of the payload
PcInputs ==
    {0, 1, 511} \cup
    {hs + page * \H8000 + low : hs \in HeaderSizes, page \in 0..MaxPage, low \in LowOffsets}

SnesInputs == {bank * \H10000 + off : bank \in 0..MaxBank, off \in BankOffsets}

\* snesaddress s = rom.pc_to_snes(p)
PcToSnes ==
    \E p \in PcInputs :
        /\ step = "idle"
        /\ pc_in' = p
        /\ snes_val' = pc_to_snes(mapper, header_size, p)
        /\ pc_out' = 0
        /\ step' = "translated"
        /\ UNCHANGED <<romVars, ratsVars, patchVars, spriteVars>>

\* rom.snes_to_pc(s) of the address pc_to_snes returned
SnesToPcBack ==
    /\ step = "translated"
    /\ pc_out' = snes_to_pc(mapper, header_size, snes_val)
    /\ step' = "roundtrip"
    /\ UNCHANGED <<romVars, ratsVars, patchVars, spriteVars, pc_in, snes_val>>

\* rom.snes_to_pc(s) of an address of the caller
SnesToPc ==
    \E s \in SnesInputs :
        /\ step = "idle"
        /\ snes_val' = s
        /\ pc_out' = snes_to_pc(mapper, header_size, s)
        /\ pc_in' = 0
        /\ step' = "direct"
        /\ UNCHANGED <<romVars, ratsVars, patchVars, spriteVars>>

AddrNext == PcToSnes \/ SnesToPcBack \/ SnesToPc

(***************************************************************************)
(* One call of get_rats_size.                                              *)
(***************************************************************************)

\* rom.get_rats_size(p) with hdr in front of p
GetRatsSize ==
    \E hdr \in RatsHeaders :
        /\ rats_step = "idle"
        /\ rats_hdr' = hdr
        /\ rats_result' = get_rats_size(hdr)
        /\ rats_step' = "done"
        /\ UNCHANGED <<romVars, addrVars, patchVars, spriteVars>>

RatsNext == GetRatsSize

(***************************************************************************)
(* One patchfile from its construction to its destruction.                 *)
(***************************************************************************)
\* patchfile(path, mode, origin), on a platform whose text mode does or
\* does not translate newlines, with or without an earlier file at path
PatchInit ==
    /\ m_fs_path \in PatchPaths
    /\ m_path = ToLowerPath(m_fs_path)
    /\ m_from_meimei \in BOOLEAN
    /\ m_binary \in BOOLEAN
    /\ s_pixi_keep = FALSE
    /\ s_meimei_keep = FALSE
    /\ m_data_stream = <<>>
    /\ patch_data = <<>>
    /\ m_vfile = EmptyVfile
    /\ disk \in {NoFile, File(<<65, 65>>)}
    /\ text_crlf \in BOOLEAN
    /\ patch_state = "alive"
    /\ dtor_io = "none"
    /\ did_fprintf = FALSE
    /\ did_fwrite = FALSE
    /\ finalized = FALSE

\* patchfile::set_keep(pixi, meimei), up to the destruction of the buffer
SetKeep ==
    \E pixi \in BOOLEAN, meimei \in BOOLEAN :
        /\ patch_state = "alive"
        /\ s_meimei_keep' = meimei
        /\ s_pixi_keep' = pixi
        /\ UNCHANGED <<m_fs_path, m_path, m_from_meimei, m_binary, m_data_stream,
                       patch_data, m_vfile, disk, text_crlf, patch_state, dtor_io,
                       did_fprintf, did_fwrite, finalized,
                       romVars, addrVars, ratsVars, spriteVars>>

\* fprintf(format, ...): the formatted text goes to the stream
Fprintf ==
    \E text \in FormattedTexts :
        /\ patch_state = "alive"
        /\ Len(m_data_stream) + Len(text) <= MaxContent
        /\ m_data_stream' = m_data_stream \o text
        /\ did_fprintf' = TRUE
        /\ finalized' = FALSE
        /\ UNCHANGED <<m_fs_path, m_path, m_from_meimei, m_binary, s_pixi_keep,
                       s_meimei_keep, patch_data, m_vfile, disk, text_crlf,
                       patch_state, dtor_io, did_fwrite,
                       romVars, addrVars, ratsVars, spriteVars>>

\* fwrite(bindata, size)
Fwrite ==
    \E chunk \in RawChunks :
        /\ patch_state = "alive"
        /\ Len(m_data_stream) + Len(chunk) <= MaxContent
        /\ m_data_stream' = m_data_stream \o chunk
        /\ did_fwrite' = TRUE
        /\ finalized' = FALSE
        /\ UNCHANGED <<m_fs_path, m_path, m_from_meimei, m_binary, s_pixi_keep,
                       s_meimei_keep, patch_data, m_vfile, disk, text_crlf,
                       patch_state, dtor_io, did_fprintf,
                       romVars, addrVars, ratsVars, spriteVars>>

\* close(): m_data = m_data_stream.str() and the snapshot points at it
PatchClose ==
    /\ patch_state = "alive"
    /\ patch_data' = m_data_stream
    /\ m_vfile' = [buffer |-> "m_data", length |-> Len(m_data_stream)]
    /\ finalized' = TRUE
    /\ UNCHANGED <<m_fs_path, m_path, m_from_meimei, m_binary, s_pixi_keep,
                   s_meimei_keep, m_data_stream, disk, text_crlf, patch_state,
                   dtor_io, did_fprintf, did_fwrite,
                   romVars, addrVars, ratsVars, spriteVars>>

\* clear()
PatchClear ==
    /\ patch_state = "alive"
    /\ m_data_stream' = <<>>
    /\ patch_data' = <<>>
    /\ m_vfile' = EmptyVfile
    /\ did_fprintf' = FALSE
    /\ did_fwrite' = FALSE
    /\ finalized' = FALSE
    /\ UNCHANGED <<m_fs_path, m_path, m_from_meimei, m_binary, s_pixi_keep,
                   s_meimei_keep, disk, text_crlf, patch_state, dtor_io,
                   romVars, addrVars, ratsVars, spriteVars>>

\* what the destructor leaves alone
DtorFrame ==
    UNCHANGED <<m_fs_path, m_path, m_from_meimei, m_binary, s_pixi_keep,
                s_meimei_keep, m_data_stream, patch_data, m_vfile, text_crlf,
                did_fprintf, did_fwrite, finalized,
                romVars, addrVars, ratsVars, spriteVars>>

\* ~patchfile(): m_path is empty
DtorEmptyPath ==
    /\ patch_state = "alive"
    /\ m_path = ""
    /\ patch_state' = "destroyed"
    /\ UNCHANGED <<disk, dtor_io>>
    /\ DtorFrame

\* ~patchfile(): keep flag set, the file opens and the snapshot is written
DtorKeepWrite ==
    /\ patch_state = "alive"
    /\ m_path # ""
    /\ keep_flag(m_from_meimei, s_pixi_keep, s_meimei_keep)
    /\ disk' = File(Written(VfileBytes(m_vfile, patch_data), m_binary, text_crlf))
    /\ dtor_io' = "ok"
    /\ patch_state' = "destroyed"
    /\ DtorFrame

\* ~patchfile(): keep flag set, open(m_fs_path, ...) returns nullptr
DtorKeepOpenFails ==
    /\ patch_state = "alive"
    /\ m_path # ""
    /\ keep_flag(m_from_meimei, s_pixi_keep, s_meimei_keep)
    /\ dtor_io' = "failed"
    /\ patch_state' = "destroyed"
    /\ UNCHANGED disk
    /\ DtorFrame

\* ~patchfile(): keep flag unset, the file that exists is removed
DtorDiscardRemove ==
    /\ patch_state = "alive"
    /\ m_path # ""
    /\ ~keep_flag(m_from_meimei, s_pixi_keep, s_meimei_keep)
    /\ disk.exists
    /\ disk' = NoFile
    /\ dtor_io' = "ok"
    /\ patch_state' = "destroyed"
    /\ DtorFrame

\* ~patchfile(): keep flag unset, no file exists
DtorDiscardNothing ==
    /\ patch_state = "alive"
    /\ m_path # ""
    /\ ~keep_flag(m_from_meimei, s_pixi_keep, s_meimei_keep)
    /\ ~disk.exists
    /\ dtor_io' = "ok"
    /\ patch_state' = "destroyed"
    /\ UNCHANGED disk
    /\ DtorFrame

PatchNext ==
    \/ SetKeep
    \/ Fprintf
    \/ Fwrite
    \/ PatchClose
    \/ PatchClear
    \/ DtorEmptyPath
    \/ DtorKeepWrite
    \/ DtorKeepOpenFails
    \/ DtorDiscardRemove
    \/ DtorDiscardNothing

(***************************************************************************)
(* is_empty_table over a span of sprites.                                  *)
(***************************************************************************)
\* is_empty_table(sprites)
IsEmptyTable ==
    \E sprites \in SpriteSpans :
        /\ table_result = "none"
        /\ sprite_list' = sprites
        /\ table_result' = IF is_empty_table(sprites) THEN "true" ELSE "false"
        /\ UNCHANGED <<romVars, addrVars, ratsVars, patchVars>>

SpriteNext == IsEmptyTable

(***************************************************************************)
(* Specifications, one for each part of the program.                       *)
(***************************************************************************)
InitAddr == RomLoaded /\ AddrIdle /\ RatsIdle /\ PatchIdle /\ SpriteIdle

SpecAddr == InitAddr /\ [][AddrNext]_vars

InitRats ==
    /\ RomLoaded /\ mapper = "lorom" /\ header_size = 512
    /\ AddrIdle /\ RatsIdle /\ PatchIdle /\ SpriteIdle

SpecRats == InitRats /\ [][RatsNext]_vars

InitRom == RomInit /\ AddrIdle /\ RatsIdle /\ PatchIdle /\ SpriteIdle

SpecRom == InitRom /\ [][RomNext]_vars

InitPatch == RomInit /\ AddrIdle /\ RatsIdle /\ PatchInit /\ SpriteIdle

SpecPatch == InitPatch /\ [][PatchNext]_vars

InitSprite == RomInit /\ AddrIdle /\ RatsIdle /\ PatchIdle /\ SpriteIdle

SpecSprite == InitSprite /\ [][SpriteNext]_vars

Init == InitRom

Next == RomNext

Spec == SpecRom

(***************************************************************************)
(* The claims.                                                             *)
(***************************************************************************)

\* the header-adjusted offset pc_to_snes works on
Adjusted == pc_in - header_size

\* C1 as stated: under LoROM, every PC offset of the payload (up to a
\* 16 MiB image) survives pc_to_snes followed by snes_to_pc.
C1_RoundTripLoRom ==
    (step = "roundtrip" /\ mapper = "lorom" /\ Adjusted >= 0)
        => pc_out = pc_in

\* C1 amended: under LoROM, every PC offset whose header-adjusted value is
\* below 0x3F0000 (the part that does not land in banks 7E/7F) survives
\* pc_to_snes followed by snes_to_pc.
C1_RoundTripLoRomBelow3F ==
    (step = "roundtrip" /\ mapper = "lorom" /\ Adjusted >= 0 /\ Adjusted < \H3F0000)
        => pc_out = pc_in

C1_Witness ==
    /\ step = "roundtrip"
    /\ mapper = "lorom"
    /\ header_size = 512
    /\ Adjusted = \H3EFFFF
    /\ snes_val = \H7DFFFF
    /\ pc_out = pc_in

\* the SNES addresses each mapper does not map to the ROM
Rejected(m, s) ==
    IF m = "lorom" THEN
        \/ And(s, \HFE0000) = \H7E0000
        \/ And(s, \H408000) = 0
        \/ And(s, \H708000) = \H700000
    ELSE IF m = "sa1rom" THEN
        /\ And(s, \H408000) # \H008000
        /\ And(s, \HC00000) # \HC00000
    ELSE
        \/ And(s, \HC00000) = \H400000
        \/ And(s, \H008000) = 0 /\ And(s, \HC00000) # \HC00000

\* C2: for every mapper and header size, snes_to_pc of a 24-bit SNES
\* address in a rejected range returns exactly -1.
C2_RejectedIsMinusOne ==
    (step = "direct" /\ Rejected(mapper, snes_val)) => pc_out = -1

\* C3 as stated: under SA1ROM, every PC offset of the payload whose
\* header-adjusted value a has (a & 0x700000) among the sa1banks survives
\* pc_to_snes followed by snes_to_pc.
C3_RoundTripSa1 ==
    (step = "roundtrip" /\ mapper = "sa1rom" /\ Adjusted >= 0
        /\ sa1match(Adjusted) # {})
        => pc_out = pc_in

\* C3 amended: under SA1ROM, every PC offset whose header-adjusted value a
\* is below 0x800000 and has (a & 0x700000) among the sa1banks survives
\* pc_to_snes followed by snes_to_pc.
C3_RoundTripSa1Below800000 ==
    (step = "roundtrip" /\ mapper = "sa1rom" /\ Adjusted >= 0
        /\ Adjusted < \H800000 /\ sa1match(Adjusted) # {})
        => pc_out = pc_in

C3_Witness ==
    /\ step = "roundtrip"
    /\ mapper = "sa1rom"
    /\ header_size = 512
    /\ Adjusted = \H3FFFFF
    /\ snes_val = \HBFFFFF
    /\ pc_out = pc_in

\* which of the three formulas of pc_to_snes under FullSA1ROM applies
FullBranch(a) ==
    IF And(a, \H400000) = \H400000 THEN 1
    ELSE IF And(a, \H600000) = 0 THEN 2
    ELSE 3

\* the SNES range of each formula: banks C0-FF, 00-3F and 80-BF
FullRangeLow(k) == IF k = 1 THEN \HC00000 ELSE IF k = 2 THEN 0 ELSE \H800000

FullRangeHigh(k) == IF k = 1 THEN \HFFFFFF ELSE IF k = 2 THEN \H3FFFFF ELSE \HBFFFFF

\* C4: under FullSA1ROM, every PC offset whose header-adjusted value lies
\* in [0, 0x800000) survives pc_to_snes followed by snes_to_pc, and each of
\* the three formulas lands in its own SNES range, the three ranges being
\* pairwise disjoint.
C4_RoundTripFullSa1 ==
    /\ \A j, k \in 1..3 :
          j # k => (FullRangeHigh(j) < FullRangeLow(k) \/ FullRangeHigh(k) < FullRangeLow(j))
    /\ (step \in {"translated", "roundtrip"} /\ mapper = "fullsa1rom"
          /\ Adjusted >= 0 /\ Adjusted < \H800000)
          => /\ snes_val >= FullRangeLow(FullBranch(Adjusted))
             /\ snes_val <= FullRangeHigh(FullBranch(Adjusted))
    /\ (step = "roundtrip" /\ mapper = "fullsa1rom"
          /\ Adjusted >= 0 /\ Adjusted < \H800000)
          => pc_out = pc_in

C4_Witness ==
    /\ step = "roundtrip"
    /\ mapper = "fullsa1rom"
    /\ header_size = 512
    /\ Adjusted = \H3FFFFF
    /\ FullBranch(Adjusted) = 3
    /\ snes_val = \HBFFFFF
    /\ pc_out = pc_in

\* the header-adjusted offsets a mapper does not map
Unmapped(m, a) ==
    IF m = "sa1rom" THEN sa1match(a) = {}
    ELSE IF m = "fullsa1rom" THEN a < 0 \/ a >= \H800000
    ELSE FALSE

\* C5: pc_to_snes returns -1 for every PC offset the mapper does not map
\* (SA1ROM: no bank base matches; FullSA1ROM: header-adjusted offset
\* negative or >= 0x800000).
C5_UnmappedIsMinusOne ==
    (step \in {"translated", "roundtrip"} /\ Unmapped(mapper, Adjusted))
        => snes_val = -1

\* the size and checksum fields of the header, little-endian
StoredSize == rats_hdr[5] + 256 * rats_hdr[6]

StoredChecksum == rats_hdr[7] + 256 * rats_hdr[8]

\* C6: get_rats_size returns s + 1 (1..65536) when the tag is "STAR" and
\* the checksum field is s XOR 0xFFFF, s being the stored size, and absent
\* whenever a tag byte or the checksum differs.
C6_RatsSize ==
    rats_step = "done" =>
        IF /\ \A k \in 1..4 : rats_hdr[k] = rats_tag[k]
           /\ StoredChecksum = 65535 - StoredSize
        THEN rats_result = Some(StoredSize + 1)
        ELSE rats_result = nullopt

\* C7 as stated: after a successful open of a file of any size T,
\* header_size = T mod 0x8000, header_size is 0 or 512, and
\* size = T - header_size, a multiple of 0x8000.
C7_HeaderSize ==
    open_result = "true" =>
        /\ header_size = file_rem
        /\ header_size \in {0, 512}
        /\ size % \H8000 = 0
        /\ size \div \H8000 = file_pages

\* C7 amended: after a successful open of a file of size T < 2^31,
\* header_size = T mod 0x8000 (any value in 0..0x7FFF: 0 or 512 only when
\* T mod 0x8000 is) and size = T - header_size, a multiple of 0x8000.
C7_HeaderSizeIsRemainder ==
    (open_result = "true" /\ file_pages < 65536) =>
        /\ header_size = file_rem
        /\ header_size >= 0 /\ header_size < \H8000
        /\ (header_size \in {0, 512}) = (file_rem \in {0, 512})
        /\ size % \H8000 = 0
        /\ size \div \H8000 = file_pages
        /\ size + header_size = FileSizeAsInt(file_pages, file_rem)

C7_Witness ==
    /\ open_result = "true"
    /\ file_pages = 32
    /\ file_rem = 512
    /\ header_size = 512
    /\ size = 32 * \H8000
    /\ mapper = "fullsa1rom"

\* the flag the destructor of this buffer reads
OwnKeep == IF m_from_meimei THEN s_meimei_keep ELSE s_pixi_keep

\* constructed with a non-empty path, appended to with fprintf and fwrite,
\* finalized with close(), then destroyed
PatchLifecycleDone ==
    /\ patch_state = "destroyed"
    /\ m_fs_path # ""
    /\ did_fprintf
    /\ did_fwrite
    /\ finalized

C9_AllEmpty ==
    table_result # "none" =>
        ((table_result = "true") =
            (\A i \in 1..Len(sprite_list) : has_empty_table(sprite_list[i])))

\* C10: over any sequence of open, close and a final destruction, every
\* buffer open allocated is freed exactly once: never twice, and once the
\* container is destroyed never zero times.
C10_FreedExactlyOnce ==
    /\ \A n \in 1..Len(free_count) : free_count[n] <= 1
    /\ rom_state = "destroyed" => \A n \in 1..Len(free_count) : free_count[n] = 1

\* C11: after every close() on an opened container, whether or not the
\* named file could be opened for writing, the buffer it held has been
\* released once and m_data is null, so the destruction that follows has
\* nothing to free.
C11_CloseReleases ==
    close_buf # 0 =>
        /\ m_data = 0
        /\ free_count[close_buf] = 1

\* the snapshot exposes no bytes: no buffer, or a length of 0
SnapshotEmpty == m_vfile.buffer = "nullptr" \/ m_vfile.length = 0

\* the keep-flag destructor opened the target and wrote the snapshot
KeptOnDisk ==
    /\ patch_state = "destroyed"
    /\ m_path # ""
    /\ OwnKeep
    /\ dtor_io = "ok"

\* C12: in every state reached by fprintf, fwrite, close() and clear(), the
\* snapshot m_vfile is empty or its (buffer, length) denotes exactly the
\* content accumulated so far (an append after close() invalidates it,
\* clear() empties both), so a destructor that keeps the file never writes
\* bytes other than the accumulated content.
C12_SnapshotEmptyOrCurrent ==
    /\ SnapshotEmpty \/ VfileBytes(m_vfile, patch_data) = m_data_stream
    /\ KeptOnDisk =>
           \/ disk = File(<<>>)
           \/ disk = File(Written(m_data_stream, m_binary, text_crlf))

====
